---- MODULE Spec2Model ----
(***************************************************************************)
(* The per-process harness of scheduler/component/base.py (function fxn   *)
(* and its helpers checkInputs, getDataAtFxn, getDataFxn, setDataFxn,     *)
(* internalEvent), run by three processes of one graph:                   *)
(*                                                                         *)
(*    A (source)   out = [c1, c2]     events = [c3]                        *)
(*    B (worker)   x = [c1], y = [c2] res = []      events = [c4]          *)
(*    M (monitor)  ev = [c3, c4] (and, in one variant, ctl = [])          *)
(*                 events = []                                             *)
(*                                                                         *)
(* The connection primitive (scheduler.util.plumber) is not part of the   *)
(* sources at hand; it is modelled from its specification (section 4.1):  *)
(* a FIFO buffer plus one close bit per end.                              *)
(*                                                                         *)
(* User logic is the environment of the harness: between two calls of the *)
(* core API it may call getDataAt, getData or setData on any port name of *)
(* its tables or on an absent name, set a latch it was handed, return, or *)
(* fail.  It goes on after the errors the API documents (unknown port,    *)
(* not ready, end of stream); any other error that a call raises          *)
(* (ZeroDivisionError, IndexError) is not caught and leaves fxn.  The     *)
(* events port is written by internalEvent only.                          *)
(***************************************************************************)
EXTENDS Integers, Sequences, FiniteSets, TLC

\* ------------------------------------------------------------- bounds ----
\* number of setData calls the user logic of one process makes
MaxSends == 3
\* user logic addresses connection indices 0..MaxIdx
MaxIdx == 1

\* The harness never inspects an IP, so the user logic numbers the IPs it
\* sends on a port 1, 2, 3, ...: all IPs of one connection are distinct.
Data == 1..MaxSends

\* --------------------------------------------------------- the graph -----
Procs == {"A", "B", "M"}
Conns == 1..4
EventTypes == {"ReceivedAllInputs", "Halt"}
\* a port name that is in no table
NoPort == "nope"
\* the order in which the port tables are iterated (dict order)
PortSeq == <<"x", "y", "ev", "ctl", "out", "res", "events">>
\* base.py line 84
FIRST_CONN == 0

VARIABLES
  inports,       \* [proc -> [port name -> sequence of connections]]
  outports,      \* [proc -> [port name -> sequence of connections]]
  metadata,      \* [proc -> the process's config blob]
  queue,         \* [conn -> buffered IPs]
  sclosed,       \* [conn -> the sending end is closed]
  rclosed,       \* [conn -> the receiving end is closed]
  pc,            \* [proc -> position of the harness]
  setDataCount,  \* state['set data count']: [proc -> [port -> <<calls, conns>>]]
  hasAllInputs,  \* state['has all inputs']
  received,      \* the set 'received' of fxn
  drainIdx,      \* position of the shutdown wait in the list of endpoints
  status,        \* the list 'status' of the shutdown wait
  closeIdx,      \* position of the close loop
  ret,           \* what a process suspended in blocker.wait() resumes to
  latch,         \* [proc -> state of the latch of the event it emitted]
  held,          \* [proc -> senders whose latch the user logic holds]
  err,           \* [proc -> the error that ended the harness, if any]
  last,          \* the outcome of the latest core API call
  sent,          \* history: [conn -> IPs passed to conn.send]
  got,           \* history: [conn -> IPs taken by conn.recv]
  returned,      \* history: [conn -> IPs handed to the caller of getDataAt]
  portLog,       \* history: [proc -> [port -> endpoint index of each send]]
  drained        \* history: [conn -> IPs discarded by the shutdown wait]

tables == <<inports, outports, metadata>>
chans == <<queue, sclosed, rclosed>>
hist == <<sent, got, returned, portLog, drained>>
vars == <<inports, outports, metadata, queue, sclosed, rclosed, pc,
          setDataCount, hasAllInputs, received, drainIdx, status, closeIdx,
          ret, latch, held, err, last, sent, got, returned, portLog, drained>>

\* ------------------------------------------------------------ values -----
\* an information packet with payload d
IP(d) == [type |-> "IP", sender |-> "-", blocker |-> FALSE, val |-> d]
\* base.py lines 45-46 and 61: the event message
Event(p, t, b) == [type |-> t, sender |-> p, blocker |-> b, val |-> 0]

NoRet == [at |-> "-", conn |-> 0, ip |-> IP(0)]
NoCall == "-"

\* ------------------------------------------------------ configuration ----
\* shapes of metadata['config']:
\*   none        no config at all (getConfig returns None)
\*   noblocking  a dict without a 'blocking' entry
\*   malformed   a dict whose 'blocking' entry is not a mapping
\*   map         a dict whose 'blocking' entry maps event types to booleans
Cfg(k, rai, halt) ==
  [kind |-> k, blocking |-> [t \in EventTypes |->
                               IF t = "ReceivedAllInputs" THEN rai ELSE halt]]
CfgNone == Cfg("none", "absent", "absent")
CfgNoBlocking == Cfg("noblocking", "absent", "absent")
CfgMalformed == Cfg("malformed", "absent", "absent")
CfgOtherType == Cfg("map", "absent", "true")
CfgFalse == Cfg("map", "false", "absent")
CfgTrue == Cfg("map", "true", "absent")
Configs == {CfgNone, CfgNoBlocking, CfgMalformed, CfgOtherType, CfgFalse,
            CfgTrue}

\* base.py line 240
getConfigFxn(p) == metadata[p]

\* any entry for the event type counts as blocking, whatever its value
IsEventBlockingAnyEntry(p, eventType) ==
  LET config == getConfigFxn(p) IN
  config.kind = "map" /\ config.blocking[eventType] # "absent"

\* base.py lines 48-57
IsEventBlocking(p, eventType) ==
  LET config == getConfigFxn(p) IN
  CASE config.kind = "none" -> FALSE          \* TypeError
    [] config.kind = "noblocking" -> FALSE    \* KeyError
    [] config.kind = "malformed" -> FALSE     \* TypeError
    [] OTHER -> IF config.blocking[eventType] = "absent"
                THEN FALSE                    \* KeyError
                ELSE config.blocking[eventType] = "true"

\* ------------------------------------------------------- port tables -----
\* dict.items() of a port table, as the sequence of its port names
Items(table) == SelectSeq(PortSeq, LAMBDA n : n \in DOMAIN table)

RECURSIVE Flatten(_, _)
\* the (port, index) pairs of a table in iteration order; index from 0
Flatten(table, names) ==
  IF names = <<>> THEN <<>>
  ELSE [k \in 1..Len(table[Head(names)]) |-> <<Head(names), k - 1>>]
       \o Flatten(table, Tail(names))

\* only the first connection of every port is visited
EndpointsFirstOnly(table) ==
  SelectSeq(Flatten(table, Items(table)), LAMBDA e : e[2] = 0)

\* base.py lines 256-257 and 267-268: the endpoints of a table, in order
Endpoints(table) == Flatten(table, Items(table))

\* the connection behind endpoint <<port, index>> of a table
ConnOf(table, e) == table[e[1]][e[2] + 1]

\* base.py lines 125-127
lenAtFxn(p, portName, inport) ==
  IF inport THEN Len(inports[p][portName]) ELSE Len(outports[p][portName])

InTables(mctl) ==
  [p \in Procs |->
     CASE p = "A" -> <<>>
       [] p = "B" -> [n \in {"x", "y"} |-> IF n = "x" THEN <<1>> ELSE <<2>>]
       [] OTHER -> IF mctl
                   THEN [n \in {"ev", "ctl"} |->
                           IF n = "ev" THEN <<3, 4>> ELSE <<>>]
                   ELSE [n \in {"ev"} |-> <<3, 4>>]]

OutTables ==
  [p \in Procs |->
     CASE p = "A" -> [n \in {"out", "events"} |->
                        IF n = "out" THEN <<1, 2>> ELSE <<3>>]
       [] p = "B" -> [n \in {"res", "events"} |->
                        IF n = "res" THEN <<>> ELSE <<4>>]
       [] OTHER -> [n \in {"events"} |-> <<>>]]

\* the configs of A, B and M
CfgOf(a, b, m) ==
  [p \in Procs |-> CASE p = "A" -> a [] p = "B" -> b [] OTHER -> m]

\* what the launcher hands to the processes: whether M has the idle input
\* port ctl, and the config of each process
Launches ==
  { <<TRUE, CfgOf(CfgNone, CfgNoBlocking, CfgMalformed)>>,
    <<TRUE, CfgOf(CfgFalse, CfgTrue, CfgTrue)>>,
    <<TRUE, CfgOf(CfgTrue, CfgTrue, CfgTrue)>>,
    <<FALSE, CfgOf(CfgMalformed, CfgOtherType, CfgNoBlocking)>>,
    <<FALSE, CfgOf(CfgTrue, CfgTrue, CfgTrue)>> }

\* ------------------------------------------------------------- Init ------
\* base.py lines 87-91 and 100: the state fxn builds before line 248
Init ==
  /\ \E l \in Launches :
        /\ inports = InTables(l[1])
        /\ metadata = l[2]
  /\ outports = OutTables
  /\ queue = [c \in Conns |-> <<>>]
  /\ sclosed = [c \in Conns |-> FALSE]
  /\ rclosed = [c \in Conns |-> FALSE]
  /\ pc = [p \in Procs |-> "start"]
  /\ setDataCount = [p \in Procs |->
        [n \in DOMAIN OutTables[p] |-> <<0, Len(OutTables[p][n])>>]]
  /\ hasAllInputs = [p \in Procs |-> FALSE]
  /\ received = [p \in Procs |-> {}]
  /\ drainIdx = [p \in Procs |-> 1]
  /\ status = [p \in Procs |-> <<>>]
  /\ closeIdx = [p \in Procs |-> 1]
  /\ ret = [p \in Procs |-> NoRet]
  /\ latch = [p \in Procs |-> "none"]
  /\ held = [p \in Procs |-> {}]
  /\ err = [p \in Procs |-> "-"]
  /\ last = NoCall
  /\ sent = [c \in Conns |-> <<>>]
  /\ got = [c \in Conns |-> <<>>]
  /\ returned = [c \in Conns |-> <<>>]
  /\ portLog = [p \in Procs |-> [n \in DOMAIN OutTables[p] |-> <<>>]]
  /\ drained = [c \in Conns |-> <<>>]

\* -------------------------------------------------------- connections ----
\* conn.send: the IP joins the buffer at its tail
Send(q, c, d) == [q EXCEPT ![c] = Append(@, d)]
\* conn.recv when the buffer is not empty: the head leaves the buffer
Recv(q, c) == [q EXCEPT ![c] = Tail(@)]
\* conn.poll: true iff a non-blocking recv would return an IP
Poll(c) == queue[c] # <<>>
\* conn.recv signals end of stream: sender closed and buffer drained
AtEOF(c) == queue[c] = <<>> /\ sclosed[c]

\* ------------------------------------------------------------ setData ----
\* base.py lines 214-225: how a setData call on the port ends
\*   unconnected        KeyError on line 216, caught: logged, nothing sent
\*   ZeroDivisionError  line 217 with numConnections = 0, not caught
\*   sent               the IP goes to conn.send
SetDataKind(p, outportName) ==
  IF outportName \notin DOMAIN setDataCount[p] THEN "unconnected"
  ELSE IF setDataCount[p][outportName][2] = 0 THEN "ZeroDivisionError"
  ELSE "sent"

\* the counter is advanced before it is used
roundRobinIndexOffByOne(p, outportName) ==
  (setDataCount[p][outportName][1] + 1) % setDataCount[p][outportName][2]

\* base.py lines 216-217
roundRobinIndex(p, outportName) ==
  setDataCount[p][outportName][1] % setDataCount[p][outportName][2]

\* base.py line 218
SetDataConn(p, outportName) ==
  outports[p][outportName][roundRobinIndex(p, outportName) + 1]

\* the IP is sent on every connection of the port
SetDataQueueBroadcast(q, p, outportName, data) ==
  IF SetDataKind(p, outportName) = "sent"
  THEN [c \in Conns |->
          IF \E k \in 1..Len(outports[p][outportName]) :
                outports[p][outportName][k] = c
          THEN Append(q[c], data) ELSE q[c]]
  ELSE q

\* base.py lines 226-227 applied to the buffers q
SetDataQueue(q, p, outportName, data) ==
  IF SetDataKind(p, outportName) = "sent"
  THEN Send(q, SetDataConn(p, outportName), data)
  ELSE q

\* base.py line 219
SetDataCounter(p, outportName) ==
  IF SetDataKind(p, outportName) = "sent"
  THEN [setDataCount EXCEPT ![p][outportName][1] = @ + 1]
  ELSE setDataCount

SetDataSent(p, outportName, data) ==
  IF SetDataKind(p, outportName) = "sent"
  THEN [sent EXCEPT ![SetDataConn(p, outportName)] = Append(@, data)]
  ELSE sent

SetDataLog(p, outportName) ==
  IF SetDataKind(p, outportName) = "sent"
  THEN [portLog EXCEPT ![p][outportName] =
                           Append(@, roundRobinIndex(p, outportName))]
  ELSE portLog

\* ------------------------------------------------------ internalEvent ----
\* the event is sent with its latch, but internalEvent does not wait on it
EmitResultNoWait(p, eventType) ==
  IF SetDataKind(p, "events") = "ZeroDivisionError" THEN "raise"
  ELSE "done"

\* base.py lines 60-66: how internalEvent(core, eventType) ends
\*   raise  setData('events', event) raised (the latch is never waited on)
\*   wait   the event is sent and the process is in blocker.wait()
\*   done   the event is sent and internalEvent returned
EmitResult(p, eventType) ==
  IF SetDataKind(p, "events") = "ZeroDivisionError" THEN "raise"
  ELSE IF IsEventBlocking(p, eventType) THEN "wait"
  ELSE "done"

\* base.py lines 45-46, 61
EventOf(p, eventType) == Event(p, eventType, IsEventBlocking(p, eventType))

\* base.py line 61: Manager().Event() is created before the send
LatchAfterEmit(p, eventType) ==
  IF IsEventBlocking(p, eventType) THEN [latch EXCEPT ![p] = "unset"]
  ELSE latch

\* one port that has delivered is taken for all of them
AllInputsArrivedAnyPort(p, rcv) == ~hasAllInputs[p] /\ rcv # {}

\* the test without the 'has all inputs' flag
AllInputsArrivedNoFlag(p, rcv) == rcv = DOMAIN inports[p]

\* base.py line 109: the test of checkInputs on a value of 'received'
AllInputsArrived(p, rcv) == ~hasAllInputs[p] /\ rcv = DOMAIN inports[p]

\* ---------------------------------------------------------- getDataAt ----
\* connIndex is ignored: the first connection of the port is read
InConnFirst(p, inportName, connIndex) == inports[p][inportName][1]

\* base.py lines 157 and 163: the connection getDataAt reads
InConn(p, inportName, connIndex) == inports[p][inportName][connIndex + 1]

\* the poll of a non-blocking call is taken the wrong way round
GetKindPollNegated(p, connIndex, inportName, block) ==
  IF inportName \notin DOMAIN inports[p] THEN "UnknownPort"
  ELSE IF connIndex >= Len(inports[p][inportName]) THEN "IndexError"
  ELSE LET c == InConn(p, inportName, connIndex) IN
       IF ~block /\ Poll(c) THEN "NotReady"
       ELSE IF queue[c] # <<>> THEN "data"
       ELSE IF AtEOF(c) THEN "EndOfStream"
       ELSE "blocked"

\* base.py lines 156-168: how getDataAt(connIndex, inportName, block) ends
GetKind(p, connIndex, inportName, block) ==
  IF inportName \notin DOMAIN inports[p] THEN "UnknownPort"
  ELSE IF connIndex >= Len(inports[p][inportName]) THEN "IndexError"
  ELSE LET c == InConn(p, inportName, connIndex) IN
       IF ~block /\ ~Poll(c) THEN "NotReady"
       ELSE IF queue[c] # <<>> THEN "data"
       ELSE IF AtEOF(c) THEN "EndOfStream"
       ELSE "blocked"

\* base.py line 174 (and line 260 in the shutdown wait): getDataAt hands
\* the IP to its caller, who asked for the endpoint of connection c
Deliver(p, at, c, ip) ==
  IF at = "user"
  THEN /\ returned' = [returned EXCEPT ![c] = Append(@, ip)]
       /\ held' = IF ip.blocker THEN [held EXCEPT ![p] = @ \cup {ip.sender}]
                  ELSE held
       /\ last' = "data"
       /\ UNCHANGED <<drained, drainIdx, status>>
  ELSE \* base.py line 260
       /\ drained' = [drained EXCEPT ![c] = Append(@, ip)]
       /\ drainIdx' = [drainIdx EXCEPT ![p] = @ + 1]
       /\ status' = [status EXCEPT ![p] = Append(@, FALSE)]
       /\ UNCHANGED <<returned, held, last>>

\* base.py lines 168-173: conn.recv takes an IP from the connection of the
\* endpoint; 'received' grows and checkInputs may emit ReceivedAllInputs
Take(p, at, inportName, connIndex) ==
  LET c == InConn(p, inportName, connIndex)
      asked == ConnOf(inports[p], <<inportName, connIndex>>)
      ip == Head(queue[c])
      rcv == received[p] \cup {inportName}
      fire == AllInputsArrived(p, rcv)
      how == IF fire THEN EmitResult(p, "ReceivedAllInputs") ELSE "skip"
      ev == EventOf(p, "ReceivedAllInputs")
  IN /\ got' = [got EXCEPT ![c] = Append(@, ip)]
     /\ received' = [received EXCEPT ![p] = rcv]
     /\ queue' = IF fire THEN SetDataQueue(Recv(queue, c), p, "events", ev)
                 ELSE Recv(queue, c)
     /\ setDataCount' = IF fire THEN SetDataCounter(p, "events")
                        ELSE setDataCount
     /\ sent' = IF fire THEN SetDataSent(p, "events", ev) ELSE sent
     /\ portLog' = IF fire THEN SetDataLog(p, "events") ELSE portLog
     /\ latch' = IF fire THEN LatchAfterEmit(p, "ReceivedAllInputs") ELSE latch
     /\ hasAllInputs' = IF how = "done" THEN [hasAllInputs EXCEPT ![p] = TRUE]
                        ELSE hasAllInputs
     /\ CASE how = "raise" ->
               /\ pc' = [pc EXCEPT ![p] = "crashed"]
               /\ err' = [err EXCEPT ![p] = "ZeroDivisionError"]
               /\ last' = IF at = "user"
                          THEN "ZeroDivisionError" ELSE last
               /\ UNCHANGED <<ret, returned, held, drained, drainIdx, status>>
          [] how = "wait" ->
               /\ pc' = [pc EXCEPT ![p] = "wait"]
               /\ ret' = [ret EXCEPT ![p] =
                                [at |-> at, conn |-> asked, ip |-> ip]]
               /\ UNCHANGED <<err, returned, held, last, drained, drainIdx,
                              status>>
          [] OTHER ->
               /\ Deliver(p, at, asked, ip)
               /\ UNCHANGED <<pc, ret, err>>
     /\ UNCHANGED <<tables, sclosed, rclosed, closeIdx>>

\* -------------------------------------------------- harness: startup -----
\* the user logic is started without the checkInputs() call
StartupNoCheck(p) ==
  /\ pc[p] = "start"
  /\ pc' = [pc EXCEPT ![p] = "user"]
  /\ UNCHANGED <<tables, chans, setDataCount, hasAllInputs, received,
                 drainIdx, status, closeIdx, ret, latch, held, err, last,
                 hist>>

\* base.py line 248: checkInputs() before the user logic runs
Startup(p) ==
  /\ pc[p] = "start"
  /\ LET fire == AllInputsArrived(p, received[p])
         how == IF fire THEN EmitResult(p, "ReceivedAllInputs") ELSE "skip"
         ev == EventOf(p, "ReceivedAllInputs")
     IN /\ queue' = IF fire THEN SetDataQueue(queue, p, "events", ev)
                    ELSE queue
        /\ setDataCount' = IF fire THEN SetDataCounter(p, "events")
                           ELSE setDataCount
        /\ sent' = IF fire THEN SetDataSent(p, "events", ev) ELSE sent
        /\ portLog' = IF fire THEN SetDataLog(p, "events") ELSE portLog
        /\ latch' = IF fire THEN LatchAfterEmit(p, "ReceivedAllInputs")
                    ELSE latch
        /\ hasAllInputs' = IF how = "done"
                           THEN [hasAllInputs EXCEPT ![p] = TRUE]
                           ELSE hasAllInputs
        /\ pc' = [pc EXCEPT ![p] = CASE how = "raise" -> "crashed"
                                     [] how = "wait" -> "wait"
                                     [] OTHER -> "user"]
        /\ err' = IF how = "raise"
                  THEN [err EXCEPT ![p] = "ZeroDivisionError"] ELSE err
        /\ ret' = IF how = "wait"
                  THEN [ret EXCEPT ![p] = [at |-> "start", conn |-> 0,
                                           ip |-> IP(0)]]
                  ELSE ret
  /\ UNCHANGED <<tables, sclosed, rclosed, received, drainIdx, status,
                 closeIdx, held, last, got, returned, drained>>

\* base.py line 63 returns: blocker.wait() is released by blocker.set();
\* then line 111, and the caller of checkInputs goes on
Resume(p) ==
  /\ pc[p] = "wait"
  /\ latch[p] = "set"
  /\ hasAllInputs' = [hasAllInputs EXCEPT ![p] = TRUE]
  /\ ret' = [ret EXCEPT ![p] = NoRet]
  /\ IF ret[p].at = "start"
     THEN /\ pc' = [pc EXCEPT ![p] = "user"]
          /\ UNCHANGED <<returned, held, last, drained, drainIdx, status>>
     ELSE /\ pc' = [pc EXCEPT ![p] = ret[p].at]
          /\ Deliver(p, ret[p].at, ret[p].conn, ret[p].ip)
  /\ UNCHANGED <<tables, chans, setDataCount, received, closeIdx, latch, err,
                 sent, got, portLog>>

\* ------------------------------------------------ user logic: core API ---
\* the port name joins 'received' before the poll and the recv, so also
\* when the call ends in NotReady or EndOfStream
GetAtAddsBeforeRecv(p, connIndex, inportName, block) ==
  LET kind == GetKind(p, connIndex, inportName, block) IN
  /\ kind # "blocked"
  /\ CASE kind = "data" ->
            Take(p, "user", inportName, connIndex)
       [] kind = "IndexError" ->
            /\ pc' = [pc EXCEPT ![p] = "crashed"]
            /\ err' = [err EXCEPT ![p] = "IndexError"]
            /\ last' = kind
            /\ UNCHANGED <<tables, chans, setDataCount, hasAllInputs,
                           received, drainIdx, status, closeIdx, ret, latch,
                           held, hist>>
       [] OTHER ->
            /\ last' = kind
            /\ received' = IF kind = "UnknownPort" THEN received
                           ELSE [received EXCEPT ![p] = @ \cup {inportName}]
            /\ UNCHANGED <<tables, chans, pc, setDataCount, hasAllInputs,
                           drainIdx, status, closeIdx, ret, latch, held, err,
                           hist>>

\* getDataAt(connIndex, inportName, block) called by the user logic
GetAt(p, connIndex, inportName, block) ==
  LET kind == GetKind(p, connIndex, inportName, block) IN
  /\ kind # "blocked"
  /\ CASE kind = "data" ->
            Take(p, "user", inportName, connIndex)
       [] kind = "IndexError" ->
            \* line 157 raises an error the API does not document
            /\ pc' = [pc EXCEPT ![p] = "crashed"]
            /\ err' = [err EXCEPT ![p] = "IndexError"]
            /\ last' = kind
            /\ UNCHANGED <<tables, chans, setDataCount, hasAllInputs,
                           received, drainIdx, status, closeIdx, ret, latch,
                           held, hist>>
       [] OTHER ->
            \* UnknownPort, NotReady, EndOfStream: surfaced to user logic
            /\ last' = kind
            /\ UNCHANGED <<tables, chans, pc, setDataCount, hasAllInputs,
                           received, drainIdx, status, closeIdx, ret, latch,
                           held, err, hist>>

\* base.py lines 156-174
UserGetDataAt(p, connIndex, inportName, block) ==
  /\ pc[p] = "user"
  /\ GetAt(p, connIndex, inportName, block)

\* getData merges the endpoints of the port: it reads the first endpoint
\* that holds an IP, endpoint 0 if none does
UserGetDataMerge(p, inportName, block) ==
  /\ pc[p] = "user"
  /\ LET ready == IF inportName \in DOMAIN inports[p]
                  THEN {k \in 1..Len(inports[p][inportName]) :
                          queue[inports[p][inportName][k]] # <<>>}
                  ELSE {}
         first == IF ready = {} THEN FIRST_CONN
                  ELSE (CHOOSE k \in ready : \A j \in ready : k <= j) - 1
     IN GetAt(p, first, inportName, block)

\* base.py lines 191-197
UserGetData(p, inportName, block) ==
  /\ pc[p] = "user"
  /\ GetAt(p, FIRST_CONN, inportName, block)

\* base.py lines 198-227, called by the user logic
UserSetData(p, outportName, d) ==
  /\ pc[p] = "user"
  /\ outportName \in DOMAIN portLog[p] =>
        d = Len(portLog[p][outportName]) + 1
  /\ LET kind == SetDataKind(p, outportName) IN
     /\ queue' = SetDataQueue(queue, p, outportName, IP(d))
     /\ setDataCount' = SetDataCounter(p, outportName)
     /\ sent' = SetDataSent(p, outportName, IP(d))
     /\ portLog' = SetDataLog(p, outportName)
     /\ last' = IF kind = "ZeroDivisionError" THEN kind ELSE "ok"
     /\ pc' = IF kind = "ZeroDivisionError"
              THEN [pc EXCEPT ![p] = "crashed"] ELSE pc
     /\ err' = IF kind = "ZeroDivisionError"
               THEN [err EXCEPT ![p] = "ZeroDivisionError"] ELSE err
  /\ UNCHANGED <<tables, sclosed, rclosed, hasAllInputs, received, drainIdx,
                 status, closeIdx, ret, latch, held, got, returned, drained>>

\* the user logic calls set() on the latch of an event it was handed
UserSetLatch(p, s) ==
  /\ pc[p] = "user"
  /\ s \in held[p]
  /\ latch[s] = "unset"
  /\ latch' = [latch EXCEPT ![s] = "set"]
  /\ UNCHANGED <<tables, chans, pc, setDataCount, hasAllInputs, received,
                 drainIdx, status, closeIdx, ret, held, err, last, hist>>

\* base.py line 250 returns; lines 252-255 start the shutdown wait
UserReturn(p) ==
  /\ pc[p] = "user"
  /\ pc' = [pc EXCEPT ![p] = "drain"]
  /\ drainIdx' = [drainIdx EXCEPT ![p] = 1]
  /\ status' = [status EXCEPT ![p] = <<>>]
  /\ UNCHANGED <<tables, chans, setDataCount, hasAllInputs, received,
                 closeIdx, ret, latch, held, err, last, hist>>

\* base.py line 250 raises: nothing in fxn catches it
UserFault(p) ==
  /\ pc[p] = "user"
  /\ pc' = [pc EXCEPT ![p] = "crashed"]
  /\ err' = [err EXCEPT ![p] = "UserLogicFault"]
  /\ UNCHANGED <<tables, chans, setDataCount, hasAllInputs, received,
                 drainIdx, status, closeIdx, ret, latch, held, last, hist>>

\* ------------------------------------------- harness: shutdown wait ------
\* base.py lines 256-262: one getDataAt(i, portName) of the shutdown wait
DrainStep(p) ==
  /\ pc[p] = "drain"
  /\ drainIdx[p] <= Len(Endpoints(inports[p]))
  /\ LET e == Endpoints(inports[p])[drainIdx[p]]
         kind == GetKind(p, e[2], e[1], TRUE)
     IN /\ kind \in {"data", "EndOfStream"}
        /\ IF kind = "data"
           THEN Take(p, "drain", e[1], e[2])
           ELSE \* line 262
                /\ status' = [status EXCEPT ![p] = Append(@, TRUE)]
                /\ drainIdx' = [drainIdx EXCEPT ![p] = @ + 1]
                /\ UNCHANGED <<tables, chans, pc, setDataCount, hasAllInputs,
                               received, closeIdx, ret, latch, held, err,
                               last, hist>>

\* only the status of the endpoint read last decides
LastTrue(st) == st = <<>> \/ st[Len(st)]

\* all(status) of base.py line 263
AllTrue(st) == \A k \in 1..Len(st) : st[k]

\* base.py lines 263 and 254: the end of one pass over the endpoints
DrainPass(p) ==
  /\ pc[p] = "drain"
  /\ drainIdx[p] > Len(Endpoints(inports[p]))
  /\ IF AllTrue(status[p])
     THEN \* the loop ends; line 266 is next
          /\ pc' = [pc EXCEPT ![p] = "close"]
          /\ closeIdx' = [closeIdx EXCEPT ![p] = 1]
          /\ UNCHANGED <<drainIdx, status>>
     ELSE \* line 255: the next pass starts with an empty list
          /\ drainIdx' = [drainIdx EXCEPT ![p] = 1]
          /\ status' = [status EXCEPT ![p] = <<>>]
          /\ UNCHANGED <<pc, closeIdx>>
  /\ UNCHANGED <<tables, chans, setDataCount, hasAllInputs, received, ret,
                 latch, held, err, last, hist>>

\* ---------------------------------------------- harness: close loop ------
\* the close loop visits the input table only
CloseListInputsOnly(p) ==
  [k \in 1..Len(Endpoints(inports[p])) |->
      <<"in", ConnOf(inports[p], Endpoints(inports[p])[k])>>]

\* base.py line 266: the endpoints the close loop visits, inputs first
\* (core has no 'ports' entry)
CloseList(p) ==
  [k \in 1..Len(Endpoints(inports[p])) |->
      <<"in", ConnOf(inports[p], Endpoints(inports[p])[k])>>]
  \o [k \in 1..Len(Endpoints(outports[p])) |->
      <<"out", ConnOf(outports[p], Endpoints(outports[p])[k])>>]

\* base.py lines 270-271: one conn.close()
CloseStep(p) ==
  /\ pc[p] = "close"
  /\ closeIdx[p] <= Len(CloseList(p))
  /\ LET e == CloseList(p)[closeIdx[p]] IN
     IF e[1] = "in"
     THEN /\ rclosed' = [rclosed EXCEPT ![e[2]] = TRUE]
          /\ UNCHANGED sclosed
     ELSE /\ sclosed' = [sclosed EXCEPT ![e[2]] = TRUE]
          /\ UNCHANGED rclosed
  /\ closeIdx' = [closeIdx EXCEPT ![p] = @ + 1]
  /\ UNCHANGED <<tables, queue, pc, setDataCount, hasAllInputs, received,
                 drainIdx, status, ret, latch, held, err, last, hist>>

\* base.py line 273: the harness returns
Finish(p) ==
  /\ pc[p] = "close"
  /\ closeIdx[p] > Len(CloseList(p))
  /\ pc' = [pc EXCEPT ![p] = "done"]
  /\ UNCHANGED <<tables, chans, setDataCount, hasAllInputs, received,
                 drainIdx, status, closeIdx, ret, latch, held, err, last,
                 hist>>

\* ------------------------------------------------------ specification ----
InNames(p) == DOMAIN inports[p] \cup {NoPort}
OutNames(p) == (DOMAIN outports[p] \ {"events"}) \cup {NoPort}

Step(p) ==
  \/ Startup(p)
  \/ Resume(p)
  \/ \E i \in 0..MaxIdx, n \in InNames(p), b \in BOOLEAN :
        UserGetDataAt(p, i, n, b)
  \/ \E n \in InNames(p), b \in BOOLEAN : UserGetData(p, n, b)
  \/ \E n \in OutNames(p), d \in Data : UserSetData(p, n, d)
  \/ \E s \in Procs : UserSetLatch(p, s)
  \/ UserReturn(p)
  \/ UserFault(p)
  \/ DrainStep(p)
  \/ DrainPass(p)
  \/ CloseStep(p)
  \/ Finish(p)

Next == \E p \in Procs : Step(p)

Spec == Init /\ [][Next]_vars

\* ============================================================ claims ======
\* the connections of the input and of the output table of a process
InConns(p) ==
  UNION {{inports[p][n][k] : k \in 1..Len(inports[p][n])} :
           n \in DOMAIN inports[p]}
OutConns(p) ==
  UNION {{outports[p][n][k] : k \in 1..Len(outports[p][n])} :
           n \in DOMAIN outports[p]}
\* the process at the receiving end of a connection
Receiver(c) == CHOOSE p \in Procs : c \in InConns(p)

IsPrefix(a, b) == Len(a) <= Len(b) /\ \A k \in 1..Len(a) : a[k] = b[k]
Count(x, seq) == Cardinality({k \in 1..Len(seq) : seq[k] = x})
SameBag(a, b) ==
  /\ Len(a) = Len(b)
  /\ \A k \in 1..Len(a) : Count(a[k], a) = Count(a[k], b)

\* what getDataAt handed back for a connection: to user logic, then to the
\* shutdown wait
Observed(c) == returned[c] \o drained[c]

\* the ReceivedAllInputs events a process sent on its events port
RAICount(p) ==
  Cardinality({ck \in Conns \X (1..(MaxSends + 2)) :
                 /\ \E k \in 1..Len(outports[p]["events"]) :
                       outports[p]["events"][k] = ck[1]
                 /\ ck[2] <= Len(sent[ck[1]])
                 /\ sent[ck[1]][ck[2]].type = "ReceivedAllInputs"
                 /\ sent[ck[1]][ck[2]].sender = p})

\* ceil(a / n) for n >= 1 and a > -n
CeilDiv(a, n) == (a + n - 1) \div n

\* C1: on every output port with n >= 1 connections the k-th send (k from 1)
\* goes to endpoint (k-1) mod n, and after m sends endpoint i has been
\* handed exactly ceil((m-i)/n) IPs.
RoundRobinFanOut ==
  \A p \in Procs : \A port \in DOMAIN outports[p] :
    LET n == Len(outports[p][port])
        m == Len(portLog[p][port])
    IN n >= 1 =>
         /\ \A k \in 1..m : portLog[p][port][k] = (k - 1) % n
         /\ \A i \in 0..(n - 1) :
               Len(sent[outports[p][port][i + 1]]) = CeilDiv(m - i, n)

\* A has sent three IPs on its two-connection port out: the round robin
\* has wrapped around
RoundRobinWrapped ==
  /\ Len(portLog["A"]["out"]) = 3
  /\ Len(sent[1]) = 2
  /\ Len(sent[2]) = 1

\* a user-logic error or a bad index of the user logic ended some harness
UserError == \E p \in Procs : err[p] \in {"UserLogicFault", "IndexError"}
SourcesClosed == \A c \in OutConns("A") : sclosed[c]
AllExited == \A p \in Procs : pc[p] = "done"

\* C2: when the source process has closed its outputs, no user logic has
\* failed and no latch is left unset, the graph does not come to rest (no
\* process can take a step, however the processes are scheduled) before
\* every process has exited (its harness has returned).
ShutdownLiveness ==
  ( /\ SourcesClosed
    /\ ~UserError
    /\ \A p \in Procs : latch[p] # "unset"
    /\ ~ENABLED Next )
  => AllExited

\* C3: once the receiver of a connection has exited (its harness has
\* returned), the IPs it took from the connection, through user-logic
\* getData/getDataAt calls and the shutdown wait, are as a multiset the IPs
\* the sender put on it, and the buffer is empty.
Conservation ==
  \A c \in Conns :
    pc[Receiver(c)] = "done" =>
      /\ queue[c] = <<>>
      /\ SameBag(Observed(c), sent[c])
      /\ SameBag(got[c], sent[c])

\* B has exited after its user logic read one IP of connection 1 and the
\* shutdown wait discarded another
ConservedAcrossDrain ==
  /\ pc["B"] = "done"
  /\ Len(returned[1]) = 1
  /\ Len(drained[1]) = 1

\* C4: when user logic fails with an uncaught error, the harness has closed
\* every output connection of the process (events included) once it is out.
FaultStillCloses ==
  \A p \in Procs :
    (pc[p] = "crashed" /\ err[p] = "UserLogicFault") =>
      \A c \in OutConns(p) : sclosed[c]

\* C5: a send on an output port that is in the table with no connection is
\* a no-op: it raises nothing and the process goes on.
SendOnEmptyPortIsNoOp ==
  \A p \in Procs : ~(pc[p] = "crashed" /\ err[p] = "ZeroDivisionError")

\* every input port name of the process has delivered an IP
EveryPortDelivered(p) ==
  \A n \in DOMAIN inports[p] :
    \E k \in 1..Len(inports[p][n]) : got[inports[p][n][k]] # <<>>

\* C6 (as claimed): a process that has run to its end has sent exactly one
\* ReceivedAllInputs event.
ExactlyOneRAI == \A p \in Procs : pc[p] = "done" => RAICount(p) = 1

\* C6 (amended): a process never sends more than one ReceivedAllInputs
\* event, and one that has run to its end has sent one if every one of its
\* input port names delivered an IP and its events port has a connection,
\* and none otherwise.
AtMostOneRAI ==
  \A p \in Procs :
    /\ RAICount(p) <= 1
    /\ pc[p] = "done" =>
         RAICount(p) = (IF /\ EveryPortDelivered(p)
                           /\ Len(outports[p]["events"]) >= 1
                        THEN 1 ELSE 0)

\* B has run to its end and has sent its event
RAISentByFinishedWorker ==
  /\ pc["B"] = "done"
  /\ RAICount("B") = 1
  /\ got[1] # <<>>
  /\ got[2] # <<>>

\* C7: a harness closes a connection, or returns, only after user logic
\* has returned and a pass of the shutdown wait found every input endpoint
\* at EndOfStream.
CloseOrdering ==
  \A p \in Procs :
    /\ \A c \in InConns(p) : rclosed[c] => pc[p] \in {"close", "done"}
    /\ \A c \in OutConns(p) : sclosed[c] => pc[p] \in {"close", "done"}
    /\ pc[p] \in {"close", "done"} =>
         /\ Len(status[p]) = Cardinality(InConns(p))
         /\ \A k \in 1..Len(status[p]) : status[p][k]
         /\ \A c \in InConns(p) : AtEOF(c)

\* B is closing after its shutdown wait discarded an IP of connection 2
ClosingAfterDrain ==
  /\ pc["B"] = "close"
  /\ drained[2] # <<>>

\* C8: a process that has exited has closed every endpoint of its input
\* table and of its output table, the events port included.
CloseCompleteness ==
  \A p \in Procs :
    pc[p] = "done" =>
      /\ \A c \in InConns(p) : rclosed[c]
      /\ \A c \in OutConns(p) : sclosed[c]

\* the source and the worker have both exited
SourceAndWorkerExited ==
  /\ pc["A"] = "done"
  /\ pc["B"] = "done"
  /\ sent[1] # <<>>

\* C9: what getDataAt has handed back for a connection is a prefix of what
\* was sent on it, and is all of it when the receiver can observe
\* EndOfStream on it.
PerConnectionFIFO ==
  \A c \in Conns :
    /\ IsPrefix(Observed(c), sent[c])
    /\ (AtEOF(c) /\ pc[Receiver(c)] \in {"user", "drain", "close", "done"})
         => Observed(c) = sent[c]

\* user logic has read the two IPs of connection 1 and then EndOfStream
ReadToEndOfStream ==
  /\ last = "EndOfStream"
  /\ pc["B"] = "user"
  /\ returned[1] = <<IP(1), IP(3)>>
  /\ AtEOF(1)

\* C10: a process whose blocking event's latch is not set has sent the event
\* on events and is suspended on the latch.
BlockingEventContract ==
  \A p \in Procs :
    latch[p] = "unset" =>
      /\ pc[p] = "wait"
      /\ \E c \in OutConns(p) : \E k \in 1..Len(sent[c]) :
            sent[c][k] = Event(p, "ReceivedAllInputs", TRUE)

\* the config of the process has a 'blocking' map that marks the event type
\* as true
MarkedBlocking(p, t) ==
  /\ metadata[p].kind = "map"
  /\ metadata[p].blocking[t] = "true"

\* C11: an event that was sent carries a blocker latch iff the config of
\* its sender has a 'blocking' map marking its type as true; a process
\* whose config is absent, has no 'blocking' entry, has one of the wrong
\* shape or one that does not mention the type creates no latch and is
\* never suspended on one.
BlockerIffConfigured ==
  /\ \A c \in Conns : \A k \in 1..Len(sent[c]) :
        sent[c][k].type \in EventTypes =>
          (sent[c][k].blocker <=> MarkedBlocking(sent[c][k].sender,
                                                 sent[c][k].type))
  /\ \A p \in Procs :
        ~MarkedBlocking(p, "ReceivedAllInputs") =>
          (pc[p] # "wait" /\ latch[p] = "none")

\* the source, whose map says false, sent its event without a latch and
\* runs its user logic; the worker, whose map says true, sent its event
\* with a latch and is suspended
BlockingAndPlainEventSent ==
  /\ metadata["A"] = CfgFalse
  /\ sent[3] = <<Event("A", "ReceivedAllInputs", FALSE)>>
  /\ pc["A"] = "user"
  /\ sent[4] = <<Event("B", "ReceivedAllInputs", TRUE)>>
  /\ pc["B"] = "wait"

\* C12: for a process with an input port, a getDataAt that takes an IP and
\* does not fail sends one ReceivedAllInputs event iff it is the call that
\* makes every input port name have delivered an IP; nothing else the
\* process or another process does sends one (not before that call, not
\* on later receives).
RAITiming ==
  [][\A p \in Procs :
       (DOMAIN inports[p] # {} /\ pc'[p] # "crashed") =>
         RAICount(p)' = RAICount(p) +
                        (IF ~EveryPortDelivered(p) /\ EveryPortDelivered(p)'
                         THEN 1 ELSE 0)]_vars

\* the worker has taken three IPs from its two ports and has sent its one
\* event
RAIOnceAfterThreeReceives ==
  /\ pc["B"] = "user"
  /\ Len(got[1]) = 2
  /\ Len(got[2]) = 1
  /\ RAICount("B") = 1
  /\ hasAllInputs["B"]

\* the user logic function of the process has been invoked
UserLogicInvoked(p) == pc[p] \in {"user", "drain", "close", "done"}

\* C13: a process with an empty input table has sent its ReceivedAllInputs
\* event before its user logic is invoked (if the event blocks, it waits at
\* startup, the event sent); its shutdown wait has no endpoint to read and
\* ends in its first pass.
EmptyInputsEmitAtStartup ==
  \A p \in Procs :
    DOMAIN inports[p] = {} =>
      /\ UserLogicInvoked(p) => RAICount(p) = 1
      /\ pc[p] = "wait" => (RAICount(p) = 1 /\ ret[p].at = "start")
      /\ pc[p] = "drain" =>
            /\ ~ENABLED DrainStep(p)
            /\ ENABLED (DrainPass(p) /\ pc'[p] = "close")
      /\ pc[p] \in {"drain", "close", "done"} =>
            (status[p] = <<>> /\ drainIdx[p] = 1)
      /\ received[p] = {}

\* the source is in its shutdown wait, its event sent at startup
SourceInShutdownWait ==
  /\ DOMAIN inports["A"] = {}
  /\ pc["A"] = "drain"
  /\ sent[3] = <<Event("A", "ReceivedAllInputs", FALSE)>>

\* the connections of one output port of a process
PortConns(p, port) ==
  {outports[p][port][k] : k \in 1..Len(outports[p][port])}

\* C14: in every step, for every output port: if a setData was made on the
\* port its counter has advanced by one and exactly one of its connections
\* has been handed the IP, which is now at the tail of that connection's
\* buffer; otherwise its counter is unchanged and none of its connections
\* has been handed or has had enqueued anything.
SetDataFrame ==
  [][\A p \in Procs : \A port \in DOMAIN outports[p] :
       IF portLog'[p][port] # portLog[p][port]
       THEN /\ Len(portLog'[p][port]) = Len(portLog[p][port]) + 1
            /\ setDataCount'[p][port] =
                  <<setDataCount[p][port][1] + 1, setDataCount[p][port][2]>>
            /\ \E c \in PortConns(p, port) :
                  /\ Len(sent'[c]) = Len(sent[c]) + 1
                  /\ sent'[c] = Append(sent[c], sent'[c][Len(sent'[c])])
                  /\ queue'[c] = Append(queue[c], sent'[c][Len(sent'[c])])
                  /\ \A c2 \in PortConns(p, port) \ {c} :
                        /\ sent'[c2] = sent[c2]
                        /\ Len(queue'[c2]) <= Len(queue[c2])
       ELSE /\ setDataCount'[p][port] = setDataCount[p][port]
            /\ \A c \in PortConns(p, port) :
                  /\ sent'[c] = sent[c]
                  /\ Len(queue'[c]) <= Len(queue[c])]_vars

\* the source has sent one IP on each connection of its port out, and its
\* startup event on events
OneSendPerConnection ==
  /\ setDataCount["A"]["out"] = <<2, 2>>
  /\ setDataCount["A"]["events"] = <<1, 1>>
  /\ queue[1] = <<IP(1)>>
  /\ queue[2] = <<IP(2)>>

\* endpoint connIndex of input port inportName of the process exists
IsEndpoint(p, inportName, connIndex) ==
  /\ inportName \in DOMAIN inports[p]
  /\ connIndex < Len(inports[p][inportName])

\* C15: a non-blocking getDataAt on an open, empty connection can always
\* be made (it does not suspend); it signals NotReady, the process goes on
\* and nothing changes but the outcome of the call. A non-blocking
\* getDataAt on a connection that holds an IP does not signal NotReady: it
\* takes the IP at the head of the buffer, and when the call returns to
\* the user logic that IP is what it has returned.
NonBlockingReceive ==
  [][\A p \in Procs : \A n \in DOMAIN inports[p] : \A i \in 0..MaxIdx :
       (pc[p] = "user" /\ IsEndpoint(p, n, i)) =>
         LET c == inports[p][n][i + 1] IN
         /\ (queue[c] = <<>> /\ ~sclosed[c]) =>
               ENABLED UserGetDataAt(p, i, n, FALSE)
         /\ (UserGetDataAt(p, i, n, FALSE) /\ queue[c] = <<>>
                                           /\ ~sclosed[c]) =>
               /\ last' = "NotReady"
               /\ UNCHANGED <<tables, chans, pc, setDataCount, hasAllInputs,
                              received, drainIdx, status, closeIdx, ret,
                              latch, held, err, hist>>
         /\ (UserGetDataAt(p, i, n, FALSE) /\ queue[c] # <<>>) =>
               /\ got'[c] = Append(got[c], Head(queue[c]))
               /\ Len(queue'[c]) = Len(queue[c]) - 1
               /\ pc'[p] = "user" =>
                     /\ last' = "data"
                     /\ returned'[c] = Append(returned[c], Head(queue[c]))
        ]_vars

\* the worker was just told NotReady: both its connections are open and
\* empty, and the monitor has not started
NotReadyOnOpenConnection ==
  /\ last = "NotReady"
  /\ pc["B"] = "user"
  /\ pc["M"] = "start"
  /\ queue[1] = <<>> /\ ~sclosed[1]
  /\ queue[2] = <<>> /\ ~sclosed[2]

\* C16: a non-blocking getDataAt on a connection whose sender has closed
\* and whose buffer is drained signals EndOfStream.
NonBlockingSeesEndOfStream ==
  [][\A p \in Procs : \A n \in DOMAIN inports[p] : \A i \in 0..MaxIdx :
       (IsEndpoint(p, n, i) /\ AtEOF(inports[p][n][i + 1])
                            /\ UserGetDataAt(p, i, n, FALSE)) =>
         last' = "EndOfStream"]_vars

\* C17: every getData(port, block) step the program can take is a
\* getDataAt(0, port, block) step and the other way round (same outcome,
\* same state change, possible in the same states); a getData step leaves
\* the buffer
\* and the receive history of every other input connection of the process
\* as they were, also when endpoint 0 is empty and another endpoint of the
\* port holds an IP.
GetDataIsGetDataAtZero ==
  [][\A p \in Procs :
       pc[p] = "user" =>
         \A n \in InNames(p) : \A b \in BOOLEAN :
           /\ UserGetData(p, n, b) <=> UserGetDataAt(p, 0, n, b)
           /\ UserGetData(p, n, b) =>
                \A c \in InConns(p) :
                  (n = NoPort \/ inports[p][n] = <<>>
                              \/ c # inports[p][n][1])
                    => (queue'[c] = queue[c] /\ got'[c] = got[c])]_vars

\* the monitor has read the event of endpoint 0 of its port ev and was
\* then told NotReady, while endpoint 1 holds the event of the suspended
\* worker
NoMergeAcrossEndpoints ==
  /\ pc["M"] = "user"
  /\ pc["B"] = "wait"
  /\ last = "NotReady"
  /\ returned[3] # <<>>
  /\ queue[3] = <<>> /\ ~sclosed[3]
  /\ queue[4] # <<>>

\* C18: on an input port that is in the table with no connection,
\* getData(port, block=false) and getDataAt(0, port, block=false) signal
\* NotReady and the user logic goes on; the shutdown wait has no endpoint
\* of the port to wait for.
ZeroConnectionPortNeverReady ==
  [][\A p \in Procs : \A n \in DOMAIN inports[p] :
       inports[p][n] = <<>> =>
         /\ (UserGetDataAt(p, 0, n, FALSE) \/ UserGetData(p, n, FALSE)) =>
               (last' = "NotReady" /\ pc'[p] = "user")
         /\ \A k \in 1..Len(Endpoints(inports[p])) :
               Endpoints(inports[p])[k][1] # n]_vars

\* the errors getDataAt documents
GetErrors == {"UnknownPort", "NotReady", "EndOfStream"}

\* C19: a getDataAt call of the user logic that ends in UnknownPort,
\* NotReady or EndOfStream changes nothing but the outcome the caller
\* sees: 'received', hasAllInputs, the buffers, the send and receive
\* histories (no event, no dequeue) and the round-robin counters stay as
\* they were. The 'received' set of a process changes only in a step that
\* takes an IP from a connection of the port that is added.
ErrorsLeaveStateUnchanged ==
  [][\A p \in Procs :
       /\ pc[p] = "user" =>
             \A n \in InNames(p) : \A i \in 0..MaxIdx : \A b \in BOOLEAN :
               (GetKind(p, i, n, b) \in GetErrors
                  /\ UserGetDataAt(p, i, n, b))
               => /\ last' \in GetErrors
                  /\ UNCHANGED <<received, hasAllInputs, queue, sent, got,
                                 returned, portLog, setDataCount, latch, pc,
                                 sclosed, rclosed>>
       /\ received'[p] # received[p] =>
             \E n \in DOMAIN inports[p] :
               /\ received'[p] = received[p] \cup {n}
               /\ \E k \in 1..Len(inports[p][n]) :
                     LET c == inports[p][n][k] IN
                     /\ queue[c] # <<>>
                     /\ got'[c] = Append(got[c], Head(queue[c]))]_vars

\* the worker has taken an IP on port x only and was then told
\* EndOfStream (the monitor has not started, the source has no input)
EndOfStreamAfterOneInput ==
  /\ last = "EndOfStream"
  /\ pc["B"] = "user"
  /\ pc["M"] = "start"
  /\ received["B"] = {"x"}
  /\ ~hasAllInputs["B"]
  /\ sent[4] = <<>>

\* every input port name of the process has an IP that getDataAt handed to
\* its caller
EveryPortHandedOver(p) ==
  \A n \in DOMAIN inports[p] :
    \E k \in 1..Len(inports[p][n]) : Observed(inports[p][n][k]) # <<>>

\* C20: for a process with input ports whose ReceivedAllInputs event is
\* blocking: while it is suspended in the getDataAt call that completed
\* 'received', the IP of that call has left its connection and has not
\* been handed to the caller, the event is sent, and hasAllInputs is
\* false; hasAllInputs is true only with the latch set; and every port
\* name has an IP handed over only with the event sent and the latch set.
BlockingReceiveHoldsBackIP ==
  \A p \in Procs :
    (MarkedBlocking(p, "ReceivedAllInputs") /\ DOMAIN inports[p] # {}) =>
      /\ pc[p] = "wait" =>
            LET c == ret[p].conn IN
            /\ ret[p].at \in {"user", "drain"}
            /\ c \in InConns(p)
            /\ got[c] # <<>>
            /\ ret[p].ip = got[c][Len(got[c])]
            /\ Len(Observed(c)) = Len(got[c]) - 1
            /\ Len(queue[c]) = Len(sent[c]) - Len(got[c])
            /\ RAICount(p) = 1
            /\ latch[p] \in {"unset", "set"}
            /\ ~hasAllInputs[p]
      /\ hasAllInputs[p] => latch[p] = "set"
      /\ EveryPortHandedOver(p) => (RAICount(p) = 1 /\ latch[p] = "set")

\* the monitor has set the latch of the worker, and the worker's getDataAt
\* has returned the IP of port y that completed its inputs
BlockedReceiveReleased ==
  /\ MarkedBlocking("B", "ReceivedAllInputs")
  /\ pc["B"] = "user"
  /\ latch["B"] = "set"
  /\ hasAllInputs["B"]
  /\ returned[1] = <<IP(1)>>
  /\ returned[2] = <<IP(2)>>

====
